---- MODULE Spec2Model ----
(***************************************************************************)
(* Role-based access control layer of the admin backend: the token codec   *)
(* (middleware/auth.js), the role and permission gates (middleware/rbac.js)*)
(* the feature routes (routes/features.js), the admin routes               *)
(* (routes/admin.js) and the auth routes (routes/auth.js).                 *)
(*                                                                         *)
(* JavaScript values are modelled as follows.  `undefined` is the record   *)
(* Undefined.  An object is a TLA+ record/function; a key that is missing  *)
(* from an object is a key that is not in its DOMAIN.  An Authorization    *)
(* header is the sequence of its space-separated words (the result of      *)
(* split(" ")), the absent header being Undefined.  A token is a record of *)
(* its body and its signature.  Time is in seconds.                        *)
(***************************************************************************)
EXTENDS Integers, Sequences, FiniteSets, Bags, TLC

VARIABLES
    store,      \* the users collection: a set of raw documents
    nextId,     \* the next _id the store assigns
    now,        \* the clock, in seconds
    issued,     \* tokens handed to clients, each with the document it was issued for
    pending,    \* handlers suspended at the await between their read and their write
    loggedOut,  \* tokens carried by a request to POST /auth/logout
    resp        \* the response the last step sent, with its request; NoResponse if none

vars == <<store, nextId, now, issued, pending, loggedOut, resp>>

---------------------------------------------------------------------------
(* Bounds of the model *)

MaxUsers == 2
MaxInflight == 2
MaxTokens == 2
MaxTicks == 3
TickSeconds == 1800

---------------------------------------------------------------------------
(* JavaScript values *)

Undefined == [undefined |-> TRUE]

\* The empty string, where a token or a header word is expected.
EmptyString == [string |-> ""]

\* JavaScript truthiness of an object-or-string value: undefined and the
\* empty string are falsy, every object and non-empty string is truthy.
Truthy(v) == v # Undefined /\ v # EmptyString

\* Truthiness of obj[key] for an object of boolean flags: a key the object
\* does not have reads as undefined, which is falsy.
FlagTruthy(obj, key) == key \in DOMAIN obj /\ obj[key] = TRUE

PermNames == {"dashboard", "collegeManagement", "contentEditing", "viewData"}

AllTrue == [p \in PermNames |-> TRUE]
AllFalse == [p \in PermNames |-> FALSE]

---------------------------------------------------------------------------
(* Token codec: jsonwebtoken as middleware/auth.js uses it *)

JWT_SECRET == "your-secret-key"
JWT_EXPIRES_IN == 3600

\* The HS256 signature of a token body under a key.  It is modelled as the
\* pair itself: two signatures are equal iff key and body are.
HS256(body, key) == <<"HS256", key, body>>

\* jwt.sign(payload, key, {expiresIn}): the payload with iat and exp added,
\* signed.
jwtSign(payload, key, expiresIn, t) ==
    LET body == [id |-> payload.id, email |-> payload.email,
                 role |-> payload.role, permissions |-> payload.permissions,
                 iat |-> t, exp |-> t + expiresIn]
    IN  [body |-> body, sig |-> HS256(body, key)]

\* JSON.stringify of an ObjectId: its string form.
ObjectIdJSON(oid) == ToString(oid)

\* generateToken leaving the permissions out of the payload.
generateToken_NoPermissions(user, t) ==
    LET payload == [id |-> ObjectIdJSON(user._id),
                    email |-> user.email,
                    role |-> user.role,
                    permissions |-> Undefined]
    IN  jwtSign(payload, JWT_SECRET, JWT_EXPIRES_IN, t)

generateToken(user, t) ==
    LET payload == [id |-> ObjectIdJSON(user._id),
                    email |-> user.email,
                    role |-> user.role,
                    permissions |-> user.permissions]
    IN  jwtSign(payload, JWT_SECRET, JWT_EXPIRES_IN, t)

\* jwt.verify that still accepts a token at the second of its expiry.
jwtVerify_ExpiryExclusive(token, key, t) ==
    IF "sig" \notin DOMAIN token \/ "body" \notin DOMAIN token
    THEN [ok |-> FALSE, error |-> "jwt malformed"]
    ELSE IF token.sig # HS256(token.body, key)
    THEN [ok |-> FALSE, error |-> "invalid signature"]
    ELSE IF t > token.body.exp
    THEN [ok |-> FALSE, error |-> "jwt expired"]
    ELSE [ok |-> TRUE, decoded |-> token.body]

\* jwt.verify(token, key) at time t: the decoded body, or a thrown error.
jwtVerify(token, key, t) ==
    IF "sig" \notin DOMAIN token \/ "body" \notin DOMAIN token
    THEN [ok |-> FALSE, error |-> "jwt malformed"]
    ELSE IF token.sig # HS256(token.body, key)
    THEN [ok |-> FALSE, error |-> "invalid signature"]
    ELSE IF t >= token.body.exp
    THEN [ok |-> FALSE, error |-> "jwt expired"]
    ELSE [ok |-> TRUE, decoded |-> token.body]

---------------------------------------------------------------------------
(* Middleware.  A middleware maps the request to: next (it called next()), *)
(* the request as it leaves it, and the response it sent if it did not.    *)

\* An Authorization header: its words, as split(" ") yields them.  A word
\* is a scheme name or a token.
Header(words) == [words |-> words]
Scheme(word) == [scheme |-> word]
BearerHeader(token) == Header(<<Scheme("Bearer"), token>>)

\* req.headers.authorization?.split(" ")[1]
HeaderToken(authorization) ==
    IF authorization = Undefined THEN Undefined
    ELSE IF Len(authorization.words) >= 2 THEN authorization.words[2]
    ELSE Undefined

\* req.headers.authorization?.split(" ")[1] || req.cookies.token
CandidateToken(req) ==
    IF Truthy(HeaderToken(req.authorization))
    THEN HeaderToken(req.authorization)
    ELSE req.cookie

Deny(req, status, message) ==
    [next |-> FALSE, req |-> req, status |-> status, message |-> message]

Pass(req) == [next |-> TRUE, req |-> req, status |-> 0, message |-> ""]

\* verifyToken reading the token's body without verifying it (jwt.decode).
verifyToken_DecodeOnly(req, t) ==
    LET token == CandidateToken(req) IN
    IF ~Truthy(token)
    THEN Deny(req, 401, "Authentication required")
    ELSE IF "body" \in DOMAIN token
    THEN Pass([req EXCEPT !.user = token.body])
    ELSE Deny(req, 401, "Invalid or expired token")

\* verifyToken refusing a token that was presented to logout.
verifyToken_Revoking(req, t) ==
    LET token == CandidateToken(req) IN
    IF ~Truthy(token)
    THEN Deny(req, 401, "Authentication required")
    ELSE LET v == jwtVerify(token, JWT_SECRET, t) IN
         IF v.ok /\ token \notin loggedOut
         THEN Pass([req EXCEPT !.user = v.decoded])
         ELSE Deny(req, 401, "Invalid or expired token")

\* verifyToken refusing a token whose subject has no record in the store.
verifyToken_SubjectExists(req, t) ==
    LET token == CandidateToken(req) IN
    IF ~Truthy(token)
    THEN Deny(req, 401, "Authentication required")
    ELSE LET v == jwtVerify(token, JWT_SECRET, t) IN
         IF v.ok /\ \E d \in store : ObjectIdJSON(d._id) = v.decoded.id
         THEN Pass([req EXCEPT !.user = v.decoded])
         ELSE Deny(req, 401, "Invalid or expired token")

verifyToken(req, t) ==
    LET token == CandidateToken(req) IN
    IF ~Truthy(token)
    THEN Deny(req, 401, "Authentication required")
    ELSE LET v == jwtVerify(token, JWT_SECRET, t) IN
         IF v.ok
         THEN Pass([req EXCEPT !.user = v.decoded])
         ELSE Deny(req, 401, "Invalid or expired token")

\* checkRole with a sub-admin holding all four flags treated as an admin.
checkRole_FullPermissions(role, req) ==
    IF ~Truthy(req.user)
    THEN Deny(req, 401, "Authentication required")
    ELSE IF req.user.role # role /\ req.user.permissions # AllTrue
    THEN Deny(req, 403, "Access denied: Insufficient permissions")
    ELSE Pass(req)

checkRole(role, req) ==
    IF ~Truthy(req.user)
    THEN Deny(req, 401, "Authentication required")
    ELSE IF req.user.role # role
    THEN Deny(req, 403, "Access denied: Insufficient permissions")
    ELSE Pass(req)

\* checkPermission without the admin bypass.
checkPermission_NoBypass(permission, req) ==
    IF ~Truthy(req.user)
    THEN Deny(req, 401, "Authentication required")
    ELSE IF ~Truthy(req.user.permissions)
            \/ ~FlagTruthy(req.user.permissions, permission)
    THEN Deny(req, 403,
              "Access denied: '" \o permission \o "' permission required")
    ELSE Pass(req)

\* checkPermission reading the flag from the user's record in the store.
checkPermission_Refetch(permission, req) ==
    IF ~Truthy(req.user)
    THEN Deny(req, 401, "Authentication required")
    ELSE IF req.user.role = "admin"
    THEN Pass(req)
    ELSE IF \A d \in store : ObjectIdJSON(d._id) = req.user.id
                                => ~FlagTruthy(d.permissions, permission)
    THEN Deny(req, 403,
              "Access denied: '" \o permission \o "' permission required")
    ELSE Pass(req)

checkPermission(permission, req) ==
    IF ~Truthy(req.user)
    THEN Deny(req, 401, "Authentication required")
    ELSE IF req.user.role = "admin"
    THEN Pass(req)
    ELSE IF ~Truthy(req.user.permissions)
            \/ ~FlagTruthy(req.user.permissions, permission)
    THEN Deny(req, 403,
              "Access denied: '" \o permission \o "' permission required")
    ELSE Pass(req)

---------------------------------------------------------------------------
(* Routes and their middleware chains *)

Mw(name, arg) == [mw |-> name, arg |-> arg]

FeatureRoutes ==
    {"GET /features/dashboard", "GET /features/colleges",
     "POST /features/content", "GET /features/data"}

AdminRoutes ==
    {"POST /admin/sub-admin", "GET /admin/sub-admins",
     "GET /admin/sub-admin/:id", "PUT /admin/sub-admin/:id",
     "DELETE /admin/sub-admin/:id"}

ProtectedRoutes == FeatureRoutes \cup AdminRoutes

\* The permission each feature route is wired to.
FeaturePermission(route) ==
    CASE route = "GET /features/dashboard" -> "dashboard"
      [] route = "GET /features/colleges" -> "collegeManagement"
      [] route = "POST /features/content" -> "contentEditing"
      [] route = "GET /features/data" -> "viewData"

FeatureMessage(route) ==
    CASE route = "GET /features/dashboard" ->
            "Dashboard data retrieved successfully"
      [] route = "GET /features/colleges" ->
            "College data retrieved successfully"
      [] route = "POST /features/content" -> "Content updated successfully"
      [] route = "GET /features/data" -> "Data retrieved successfully"

adminOnly == <<Mw("verifyToken", ""), Mw("checkRole", "admin")>>

Chain(route) ==
    IF route \in FeatureRoutes
    THEN <<Mw("verifyToken", ""), Mw("checkPermission", FeaturePermission(route))>>
    ELSE adminOnly

ApplyMiddleware(m, req, t) ==
    CASE m.mw = "verifyToken" -> verifyToken(req, t)
      [] m.mw = "checkRole" -> checkRole(m.arg, req)
      [] m.mw = "checkPermission" -> checkPermission(m.arg, req)

\* Express runs the middleware of a chain in order; each runs only if the
\* one before it called next(), and the handler only if all of them did.
RECURSIVE RunChain(_, _, _, _)
RunChain(chain, req, t, trace) ==
    IF chain = <<>>
    THEN [allowed |-> TRUE, req |-> req, status |-> 0, message |-> "",
          trace |-> trace]
    ELSE LET r == ApplyMiddleware(Head(chain), req, t) IN
         IF r.next
         THEN RunChain(Tail(chain), r.req, t, Append(trace, Head(chain)))
         ELSE [allowed |-> FALSE, req |-> r.req, status |-> r.status,
               message |-> r.message, trace |-> Append(trace, Head(chain))]

HandlerMark(route) == Mw("handler", route)

---------------------------------------------------------------------------
(* The User model (models/User.js) and the store *)

Roles == {"admin", "sub-admin"}

\* The schema's defaults for permissions: each flag not given is false.
ApplyDefaults(permissions) ==
    [p \in PermNames |-> FlagTruthy(permissions, p)]

\* The pre-save hook's one-way derivation of the password.
Hash(password) == [bcrypt |-> password]

\* user.comparePassword(candidate)
comparePassword(user, candidate) == user.password = Hash(candidate)

\* new User(fields) followed by the pre-save hook: the document save() writes.
NewUser(id, name, email, password, role, permissions) ==
    [_id |-> id, name |-> name, email |-> email, password |-> Hash(password),
     role |-> role, permissions |-> ApplyDefaults(permissions)]

\* A store without the unique index on email.
DuplicateKey_NoIndex(docs, id, email) == FALSE

\* The unique index on email: save() and findOneAndUpdate() throw a
\* duplicate-key error for an email another document holds.
DuplicateKey(docs, id, email) ==
    \E d \in docs : d._id # id /\ d.email = email

DuplicateKeyMessage == "E11000 duplicate key error"

\* A document as a query returns it: the schema's defaults filled in.
Hydrate(doc) == [doc EXCEPT !.permissions = ApplyDefaults(doc.permissions)]

\* User.findOne(filter): a document matching, or null (Undefined).
FindOne(docs, Matches(_)) ==
    IF \E d \in docs : Matches(d)
    THEN Hydrate(CHOOSE d \in docs : Matches(d))
    ELSE Undefined

\* A query without the select("-password").
WithoutPassword_Everything(doc) == doc

\* select("-password")
WithoutPassword(doc) ==
    [k \in DOMAIN doc \ {"password"} |-> doc[k]]

---------------------------------------------------------------------------
(* Requests and responses *)

Request(authorization, cookie) ==
    [authorization |-> authorization, cookie |-> cookie, user |-> Undefined]

Anonymous == Request(Undefined, Undefined)

\* res.status(status).json({message, ...}) in answer to req on route; trace
\* lists the middleware that ran for it, and the handler if it ran; input
\* keeps the body and parameters the handler read.
Response(route, req, status, message, trace) ==
    [route |-> route, authorization |-> req.authorization,
     cookie |-> req.cookie, user |-> req.user,
     status |-> status, message |-> message, trace |-> trace,
     token |-> Undefined, setCookie |-> Undefined, clearCookie |-> FALSE,
     body |-> Undefined, input |-> Undefined]

NoResponse == Response("", Anonymous, 0, "", <<>>)

\* The response of a middleware that did not call next().
Rejection(route, g) == Response(route, g.req, g.status, g.message, g.trace)

\* A token a client holds is kept with the document it was issued for and
\* the time of issuance.
Issue(user, t) == [token |-> generateToken(user, t), user |-> user, at |-> t]

\* Clients keep at most MaxTokens tokens to present again.
Remember(entry) ==
    IF Cardinality(issued) < MaxTokens THEN issued \cup {entry} ELSE issued

IssuedTokens == {e.token : e \in issued}

\* What an attacker can make without the signing key: a token signed with
\* a key of its own, and an issued token with its role rewritten.
AttackerToken ==
    jwtSign([id |-> "1", email |-> "a@x", role |-> "admin",
             permissions |-> AllTrue], "attacker-key", JWT_EXPIRES_IN, 0)

Tampered(token) ==
    [token EXCEPT !.body = [token.body EXCEPT !.role = "admin"]]

ForgedTokens ==
    {AttackerToken} \cup {Tampered(k) : k \in {i \in IssuedTokens : i.body.role # "admin"}}

\* The requests clients send: no token, or a token in the Bearer header or
\* in the cookie.
ClientRequests(tokens, forged) ==
    {Request(Undefined, Undefined)}
        \cup {Request(BearerHeader(k), Undefined) : k \in tokens \cup forged}
        \cup {Request(Undefined, k) : k \in tokens}

Init ==
    /\ store = {}
    /\ nextId = 1
    /\ now = 0
    /\ issued = {}
    /\ pending = EmptyBag
    /\ loggedOut = {}
    /\ resp = NoResponse

Tick ==
    /\ now + TickSeconds <= MaxTicks * TickSeconds
    /\ now' = now + TickSeconds
    /\ resp' = NoResponse
    /\ UNCHANGED <<store, nextId, issued, pending, loggedOut>>

---------------------------------------------------------------------------
(* routes/features.js *)

FeatureRequest(route, req) ==
    LET g == RunChain(Chain(route), req, now, <<>>) IN
    /\ resp' = IF g.allowed
               THEN Response(route, g.req, 200, FeatureMessage(route),
                             Append(g.trace, HandlerMark(route)))
               ELSE Rejection(route, g)
    /\ UNCHANGED <<store, nextId, now, issued, pending, loggedOut>>

---------------------------------------------------------------------------
(* routes/auth.js *)

Emails == {"a@x", "b@x"}

SignupRoute == "POST /auth/admin/signup"
LoginRoute == "POST /auth/login"
LogoutRoute == "POST /auth/logout"

\* Request bodies of POST /auth/admin/signup: the three fields the handler
\* reads, alone or with a role and permissions the handler does not read.
SignupBodies ==
    {[name |-> "Admin", email |-> e, password |-> "pw1"] : e \in Emails}
        \cup {[name |-> "Admin", email |-> "a@x", password |-> "pw1",
               role |-> "sub-admin", permissions |-> AllFalse]}

\* A handler suspended at an await, with its request and the middleware
\* that ran for it.
Suspended(route, req, body, trace) ==
    [route |-> route, req |-> req, body |-> body, trace |-> trace]

\* POST /auth/admin/signup up to the await of User.findOne({role: "admin"}).
Signup_Read(req, body) ==
    LET adminExists == FindOne(store, LAMBDA d : d.role = "admin") IN
    IF Truthy(adminExists)
    THEN /\ resp' = Response(SignupRoute, req, 400,
                             "Admin account already exists", <<>>)
         /\ UNCHANGED <<store, nextId, now, issued, pending, loggedOut>>
    ELSE /\ BagCardinality(pending) < MaxInflight
         /\ nextId + BagCardinality(pending) <= MaxUsers
         /\ pending' = pending (+) SetToBag({Suspended(SignupRoute, req, body, <<>>)})
         /\ resp' = NoResponse
         /\ UNCHANGED <<store, nextId, now, issued, loggedOut>>

\* POST /auth/admin/signup from new User(...) on.
Signup_Write(e) ==
    LET admin == NewUser(nextId, e.body.name, e.body.email, e.body.password,
                         "admin", AllTrue)
        entry == Issue(admin, now)
    IN
    /\ e.route = SignupRoute
    /\ nextId <= MaxUsers
    /\ pending' = pending (-) SetToBag({e})
    /\ IF DuplicateKey(store, admin._id, admin.email)
       THEN /\ resp' = Response(SignupRoute, e.req, 500, DuplicateKeyMessage,
                                e.trace)
            /\ UNCHANGED <<store, nextId, issued>>
       ELSE /\ store' = store \cup {admin}
            /\ nextId' = nextId + 1
            /\ issued' = Remember(entry)
            /\ resp' = [Response(SignupRoute, e.req, 201,
                                 "Admin account created successfully",
                                 e.trace)
                          EXCEPT !.token = entry.token]
    /\ UNCHANGED <<now, loggedOut>>

LoginBodies ==
    {[email |-> e, password |-> pw] : e \in Emails, pw \in {"pw1", "wrong"}}

UserView(user) ==
    [id |-> user._id, name |-> user.name, email |-> user.email,
     role |-> user.role, permissions |-> user.permissions]

\* login answering an unknown email with a message of its own.
Login_UserNotFound(req, body) ==
    LET user == FindOne(store, LAMBDA d : d.email = body.email)
        entry == Issue(user, now)
    IN
    /\ IF ~Truthy(user)
       THEN /\ resp' = [Response(LoginRoute, req, 404, "User not found", <<>>)
                          EXCEPT !.input = body]
            /\ UNCHANGED issued
       ELSE IF ~comparePassword(user, body.password)
       THEN /\ resp' = [Response(LoginRoute, req, 401, "Invalid credentials",
                                 <<>>)
                          EXCEPT !.input = body]
            /\ UNCHANGED issued
       ELSE /\ issued' = Remember(entry)
            /\ resp' = [Response(LoginRoute, req, 200, "Login successful",
                                 <<>>)
                          EXCEPT !.token = entry.token,
                                 !.setCookie = entry.token,
                                 !.body = UserView(user),
                                 !.input = body]
    /\ UNCHANGED <<store, nextId, now, pending, loggedOut>>

\* POST /auth/login
Login(req, body) ==
    LET user == FindOne(store, LAMBDA d : d.email = body.email)
        entry == Issue(user, now)
    IN
    /\ IF ~Truthy(user)
       THEN /\ resp' = [Response(LoginRoute, req, 401, "Invalid credentials",
                                 <<>>)
                          EXCEPT !.input = body]
            /\ UNCHANGED issued
       ELSE IF ~comparePassword(user, body.password)
       THEN /\ resp' = [Response(LoginRoute, req, 401, "Invalid credentials",
                                 <<>>)
                          EXCEPT !.input = body]
            /\ UNCHANGED issued
       ELSE /\ issued' = Remember(entry)
            /\ resp' = [Response(LoginRoute, req, 200, "Login successful",
                                 <<>>)
                          EXCEPT !.token = entry.token,
                                 !.setCookie = entry.token,
                                 !.body = UserView(user),
                                 !.input = body]
    /\ UNCHANGED <<store, nextId, now, pending, loggedOut>>

\* POST /auth/logout
Logout(req) ==
    /\ resp' = [Response(LogoutRoute, req, 200, "Logout successful", <<>>)
                  EXCEPT !.clearCookie = TRUE]
    /\ loggedOut' = loggedOut \cup ({CandidateToken(req)} \cap IssuedTokens)
    /\ UNCHANGED <<store, nextId, now, issued, pending>>

---------------------------------------------------------------------------
(* routes/admin.js *)

CreateRoute == "POST /admin/sub-admin"
ListRoute == "GET /admin/sub-admins"
GetRoute == "GET /admin/sub-admin/:id"
UpdateRoute == "PUT /admin/sub-admin/:id"
DeleteRoute == "DELETE /admin/sub-admin/:id"

\* body.key of a request body: undefined for a key the body does not have.
Supplied(body, key) == key \in DOMAIN body

\* Request bodies of POST /admin/sub-admin: without permissions, with some
\* of the flags, with all of them, and with a role the handler does not read.
CreateBodies ==
    {[name |-> "Sub", email |-> e, password |-> "pw1"] : e \in Emails}
        \cup {[name |-> "Sub", email |-> "b@x", password |-> "pw1",
               permissions |-> [p \in {"dashboard"} |-> TRUE]],
              [name |-> "Sub", email |-> "b@x", password |-> "pw1",
               role |-> "admin", permissions |-> AllTrue]}

\* permissions || {}
PermissionsOrEmpty(body) ==
    IF Supplied(body, "permissions") THEN body.permissions
    ELSE [p \in {} |-> TRUE]

\* POST /admin/sub-admin up to the await of User.findOne({email}).
CreateSubAdmin_Read(req, body) ==
    LET g == RunChain(Chain(CreateRoute), req, now, <<>>)
        trace == Append(g.trace, HandlerMark(CreateRoute))
        userExists == FindOne(store, LAMBDA d : d.email = body.email)
    IN
    IF ~g.allowed
    THEN /\ resp' = Rejection(CreateRoute, g)
         /\ UNCHANGED <<store, nextId, now, issued, pending, loggedOut>>
    ELSE IF Truthy(userExists)
    THEN /\ resp' = [Response(CreateRoute, g.req, 400, "Email already in use",
                              trace)
                       EXCEPT !.input = body]
         /\ UNCHANGED <<store, nextId, now, issued, pending, loggedOut>>
    ELSE /\ BagCardinality(pending) < MaxInflight
         /\ nextId + BagCardinality(pending) <= MaxUsers
         /\ pending' = pending (+) SetToBag({Suspended(CreateRoute, g.req, body, trace)})
         /\ resp' = NoResponse
         /\ UNCHANGED <<store, nextId, now, issued, loggedOut>>

SubAdminView(user) ==
    [id |-> user._id, name |-> user.name, email |-> user.email,
     permissions |-> user.permissions]

\* POST /admin/sub-admin from new User(...) on.
CreateSubAdmin_Write(e) ==
    LET subAdmin == NewUser(nextId, e.body.name, e.body.email, e.body.password,
                            "sub-admin", PermissionsOrEmpty(e.body))
    IN
    /\ e.route = CreateRoute
    /\ nextId <= MaxUsers
    /\ pending' = pending (-) SetToBag({e})
    /\ IF DuplicateKey(store, subAdmin._id, subAdmin.email)
       THEN /\ resp' = [Response(CreateRoute, e.req, 500, DuplicateKeyMessage,
                                 e.trace)
                          EXCEPT !.input = e.body]
            /\ UNCHANGED <<store, nextId>>
       ELSE /\ store' = store \cup {subAdmin}
            /\ nextId' = nextId + 1
            /\ resp' = [Response(CreateRoute, e.req, 201,
                                 "Sub-admin created successfully", e.trace)
                          EXCEPT !.body = SubAdminView(subAdmin),
                                 !.input = e.body]
    /\ UNCHANGED <<now, issued, loggedOut>>

\* GET /admin/sub-admins
ListSubAdmins(req) ==
    LET g == RunChain(Chain(ListRoute), req, now, <<>>)
        subAdmins == {WithoutPassword(Hydrate(d)) :
                        d \in {x \in store : x.role = "sub-admin"}}
    IN
    /\ resp' = IF ~g.allowed THEN Rejection(ListRoute, g)
               ELSE [Response(ListRoute, g.req, 200, "",
                              Append(g.trace, HandlerMark(ListRoute)))
                       EXCEPT !.body = subAdmins]
    /\ UNCHANGED <<store, nextId, now, issued, pending, loggedOut>>

\* GET /admin/sub-admin/:id
GetSubAdmin(req, id) ==
    LET g == RunChain(Chain(GetRoute), req, now, <<>>)
        trace == Append(g.trace, HandlerMark(GetRoute))
        subAdmin == FindOne(store, LAMBDA d : d._id = id /\ d.role = "sub-admin")
    IN
    /\ resp' = IF ~g.allowed THEN Rejection(GetRoute, g)
               ELSE IF ~Truthy(subAdmin)
               THEN Response(GetRoute, g.req, 404, "Sub-admin not found",
                             trace)
               ELSE [Response(GetRoute, g.req, 200, "", trace)
                       EXCEPT !.body = WithoutPassword(subAdmin)]
    /\ UNCHANGED <<store, nextId, now, issued, pending, loggedOut>>

\* Request bodies of PUT /admin/sub-admin/:id: none, one or several of the
\* fields the handler reads, and a role it does not read.
UpdateBodies ==
    {[n \in {} |-> TRUE], [name |-> "Renamed"],
     [permissions |-> AllFalse],
     [permissions |-> [p \in {"viewData"} |-> TRUE]],
     [role |-> "admin", permissions |-> AllTrue]}
        \cup {[email |-> e] : e \in Emails}

\* $set with permissions: permissions || {}, as the creation has it.
ApplySet_PermissionsOrEmpty(doc, body) ==
    [k \in DOMAIN doc |->
        IF k = "permissions" THEN PermissionsOrEmpty(body)
        ELSE IF k \in {"name", "email"} /\ Supplied(body, k) THEN body[k]
        ELSE doc[k]]

\* $set taking the role from the body as well.
ApplySet_WithRole(doc, body) ==
    [k \in DOMAIN doc |->
        IF k \in {"name", "email", "permissions", "role"} /\ Supplied(body, k)
        THEN body[k] ELSE doc[k]]

\* {$set: {name, email, permissions}}: a field whose value is undefined is
\* dropped from the update; a field given replaces the stored one.
ApplySet(doc, body) ==
    [k \in DOMAIN doc |->
        IF k \in {"name", "email", "permissions"} /\ Supplied(body, k)
        THEN body[k] ELSE doc[k]]

\* PUT /admin/sub-admin/:id
UpdateSubAdmin(req, id, body) ==
    LET g == RunChain(Chain(UpdateRoute), req, now, <<>>)
        trace == Append(g.trace, HandlerMark(UpdateRoute))
        found == {d \in store : d._id = id /\ d.role = "sub-admin"}
        old == CHOOSE d \in found : TRUE
        new == ApplySet(old, body)
        input == [id |-> id, body |-> body]
    IN
    IF ~g.allowed
    THEN /\ resp' = Rejection(UpdateRoute, g)
         /\ UNCHANGED <<store, nextId, now, issued, pending, loggedOut>>
    ELSE IF found = {}
    THEN /\ resp' = [Response(UpdateRoute, g.req, 404, "Sub-admin not found",
                              trace)
                       EXCEPT !.input = input]
         /\ UNCHANGED <<store, nextId, now, issued, pending, loggedOut>>
    ELSE IF DuplicateKey(store, new._id, new.email)
    THEN /\ resp' = [Response(UpdateRoute, g.req, 500, DuplicateKeyMessage,
                              trace)
                       EXCEPT !.input = input]
         /\ UNCHANGED <<store, nextId, now, issued, pending, loggedOut>>
    ELSE /\ store' = (store \ {old}) \cup {new}
         /\ resp' = [Response(UpdateRoute, g.req, 200,
                              "Sub-admin updated successfully", trace)
                       EXCEPT !.body = WithoutPassword(Hydrate(new)),
                              !.input = input]
         /\ UNCHANGED <<nextId, now, issued, pending, loggedOut>>

\* The delete filtering by id alone.
DeleteSubAdmin_AnyRole(req, id) ==
    LET g == RunChain(Chain(DeleteRoute), req, now, <<>>)
        trace == Append(g.trace, HandlerMark(DeleteRoute))
        found == {d \in store : d._id = id}
    IN
    IF ~g.allowed
    THEN /\ resp' = Rejection(DeleteRoute, g)
         /\ UNCHANGED <<store, nextId, now, issued, pending, loggedOut>>
    ELSE IF found = {}
    THEN /\ resp' = [Response(DeleteRoute, g.req, 404, "Sub-admin not found",
                              trace)
                       EXCEPT !.input = [id |-> id]]
         /\ UNCHANGED <<store, nextId, now, issued, pending, loggedOut>>
    ELSE /\ store' = store \ found
         /\ resp' = [Response(DeleteRoute, g.req, 200,
                              "Sub-admin deleted successfully", trace)
                       EXCEPT !.input = [id |-> id]]
         /\ UNCHANGED <<nextId, now, issued, pending, loggedOut>>

\* DELETE /admin/sub-admin/:id
DeleteSubAdmin(req, id) ==
    LET g == RunChain(Chain(DeleteRoute), req, now, <<>>)
        trace == Append(g.trace, HandlerMark(DeleteRoute))
        found == {d \in store : d._id = id /\ d.role = "sub-admin"}
    IN
    IF ~g.allowed
    THEN /\ resp' = Rejection(DeleteRoute, g)
         /\ UNCHANGED <<store, nextId, now, issued, pending, loggedOut>>
    ELSE IF found = {}
    THEN /\ resp' = [Response(DeleteRoute, g.req, 404, "Sub-admin not found",
                              trace)
                       EXCEPT !.input = [id |-> id]]
         /\ UNCHANGED <<store, nextId, now, issued, pending, loggedOut>>
    ELSE /\ store' = store \ found
         /\ resp' = [Response(DeleteRoute, g.req, 200,
                              "Sub-admin deleted successfully", trace)
                       EXCEPT !.input = [id |-> id]]
         /\ UNCHANGED <<nextId, now, issued, pending, loggedOut>>

---------------------------------------------------------------------------
(* Store failures: the catch block every lifecycle handler ends with *)

LifecycleRoutes == {SignupRoute, LoginRoute} \cup AdminRoutes

\* process.env.NODE_ENV
Environments == {"development", "production"}

\* The message of an error the store driver throws.
StoreErrorMessage == "MongoNetworkError: connection refused"

\* catch (error) { res.status(500).json({ message: error.message }) }
CatchBlock(route, req, error, trace) ==
    Response(route, req, 500, error.message, trace)

\* A lifecycle handler whose first store operation throws, under either
\* NODE_ENV: the gates of the route have passed, the handler's catch block
\* answers.
StoreFault(route, req, env) ==
    LET g == IF route \in ProtectedRoutes
             THEN RunChain(Chain(route), req, now, <<>>)
             ELSE [allowed |-> TRUE, req |-> req, status |-> 0,
                   message |-> "", trace |-> <<>>]
        error == [message |-> StoreErrorMessage]
    IN
    /\ route \in LifecycleRoutes
    /\ g.allowed
    /\ resp' = [CatchBlock(route, g.req, error,
                           Append(g.trace, HandlerMark(route)))
                  EXCEPT !.input = [env |-> env]]
    /\ UNCHANGED <<store, nextId, now, issued, pending, loggedOut>>

\* The response of a handler whose store operation threw.
StoreFailed(r) == "env" \in DOMAIN r.input

\* The requests that reach the handler of a route: any on the open routes
\* (sent here without a token), those the gates let through on the others.
FaultRequests(route) ==
    IF route \in ProtectedRoutes
    THEN ClientRequests(IssuedTokens, ForgedTokens)
    ELSE {Anonymous}

---------------------------------------------------------------------------
(* The system: clients send requests carrying no token, a token they were *)
(* issued, or a forged one; suspended handlers resume in any order.       *)

Clients == ClientRequests(IssuedTokens, ForgedTokens)

Ids == 1..MaxUsers

\* No response is waiting to be read.
Idle == resp.route = ""

\* The client reads the response before the next step is taken.
Deliver ==
    /\ resp.route # ""
    /\ resp' = NoResponse
    /\ UNCHANGED <<store, nextId, now, issued, pending, loggedOut>>

Next ==
    \/ Idle /\ Tick
    \/ Idle /\ \E body \in SignupBodies : Signup_Read(Anonymous, body)
    \/ Idle /\ \E e \in BagToSet(pending) : Signup_Write(e)
    \/ Idle /\ \E body \in LoginBodies : Login(Anonymous, body)
    \/ Idle /\ \E req \in Clients : Logout(req)
    \/ Idle /\ \E route \in FeatureRoutes, req \in Clients : FeatureRequest(route, req)
    \/ Idle /\ \E req \in Clients, body \in CreateBodies : CreateSubAdmin_Read(req, body)
    \/ Idle /\ \E e \in BagToSet(pending) : CreateSubAdmin_Write(e)
    \/ Idle /\ \E req \in Clients : ListSubAdmins(req)
    \/ Idle /\ \E req \in Clients, id \in Ids : GetSubAdmin(req, id)
    \/ Idle /\ \E req \in Clients, id \in Ids, body \in UpdateBodies :
            UpdateSubAdmin(req, id, body)
    \/ Idle /\ \E req \in Clients, id \in Ids : DeleteSubAdmin(req, id)
    \/ Idle /\ \E route \in LifecycleRoutes :
            \E req \in FaultRequests(route) :
                StoreFault(route, req, "production")
    \/ Deliver

Spec == Init /\ [][Next]_vars

---------------------------------------------------------------------------
(* The gates as functions of the request and the clock: every identity     *)
(* context and every placement of a token in the request, whether or not   *)
(* the lifecycle operations would issue such a token.                      *)

\* The permissions of an identity context: every combination of the four
\* flags, an object with a single key, and no permissions object at all.
ContextPermissions ==
    [PermNames -> BOOLEAN] \cup {[p \in {"viewData"} |-> TRUE], Undefined}

SignedToken(role, permissions, t) ==
    jwtSign([id |-> "1", email |-> "a@x", role |-> role,
             permissions |-> permissions], JWT_SECRET, JWT_EXPIRES_IN, t)

\* A validly signed token for every identity context.
ContextTokens ==
    {SignedToken(r, pm, 0) : r \in Roles, pm \in ContextPermissions}

\* req.user as a gate may find it: absent, or any decoded identity context.
Contexts == {Undefined} \cup {k.body : k \in ContextTokens}

\* The tokens placed in header and cookie together: valid ones of either
\* role, one issued later, and the forged ones.
PlacedTokens ==
    {SignedToken("admin", AllTrue, 0), SignedToken("sub-admin", AllFalse, 0),
     SignedToken("sub-admin", AllTrue, TickSeconds), AttackerToken,
     Tampered(SignedToken("sub-admin", AllTrue, 0))}

Headers ==
    {Undefined, Header(<<Scheme("Bearer")>>),
     Header(<<Scheme("Bearer"), EmptyString>>)}
        \cup {BearerHeader(k) : k \in PlacedTokens}
        \cup {Header(<<Scheme("Basic"), k>>) : k \in PlacedTokens}
        \cup {Header(<<k>>) : k \in PlacedTokens}

Cookies == {Undefined, EmptyString} \cup PlacedTokens

GateRequests ==
    {Request(BearerHeader(k), Undefined) : k \in ContextTokens}
        \cup {Request(h, c) : h \in Headers, c \in Cookies}

MiddlewareCall == "middleware"

\* One middleware called on a request whose req.user is already set, as a
\* unit test calls it.  A middleware that calls next() sends no response:
\* the call is recorded with status 0.
CallMiddleware(m, user) ==
    LET g == RunChain(<<m>>, [Anonymous EXCEPT !.user = user], now, <<>>) IN
    /\ resp' = IF g.allowed
               THEN Response(MiddlewareCall, g.req, 0, "", g.trace)
               ELSE Rejection(MiddlewareCall, g)
    /\ UNCHANGED <<store, nextId, now, issued, pending, loggedOut>>

NextGate ==
    \/ Idle /\ Tick
    \/ Idle /\ \E route \in FeatureRoutes, req \in GateRequests :
            FeatureRequest(route, req)
    \/ Idle /\ \E req \in GateRequests : ListSubAdmins(req)
    \/ Idle /\ \E req \in GateRequests, id \in Ids : GetSubAdmin(req, id)
    \/ Idle /\ \E role \in Roles, user \in Contexts :
            CallMiddleware(Mw("checkRole", role), user)
    \/ Idle /\ \E permission \in PermNames, user \in Contexts :
            CallMiddleware(Mw("checkPermission", permission), user)
    \/ Deliver

SpecGate == Init /\ [][NextGate]_vars

---------------------------------------------------------------------------
(* The administration of sub-admins once the admin account exists: the    *)
(* state a signup leaves, with every id from nextId on free for sub-admins *)
(* so that two creations can be in flight together.                        *)

BootstrappedAdmin == NewUser(0, "Admin", "a@x", "pw1", "admin", AllTrue)

InitAdmin ==
    /\ store = {BootstrappedAdmin}
    /\ nextId = 1
    /\ now = 0
    /\ issued = {Issue(BootstrappedAdmin, 0)}
    /\ pending = EmptyBag
    /\ loggedOut = {}
    /\ resp = NoResponse

AdminIds == 0..MaxUsers

NextAdmin ==
    \/ Idle /\ \E body \in LoginBodies : Login(Anonymous, body)
    \/ Idle /\ \E req \in Clients, body \in CreateBodies : CreateSubAdmin_Read(req, body)
    \/ Idle /\ \E e \in BagToSet(pending) : CreateSubAdmin_Write(e)
    \/ Idle /\ \E req \in Clients : ListSubAdmins(req)
    \/ Idle /\ \E req \in Clients, id \in AdminIds : GetSubAdmin(req, id)
    \/ Idle /\ \E req \in Clients, id \in AdminIds, body \in UpdateBodies :
            UpdateSubAdmin(req, id, body)
    \/ Idle /\ \E req \in Clients, id \in AdminIds : DeleteSubAdmin(req, id)
    \/ Idle /\ \E route \in LifecycleRoutes, env \in Environments :
            \E req \in FaultRequests(route) :
                StoreFault(route, req, env)
    \/ Deliver

SpecAdmin == InitAdmin /\ [][NextAdmin]_vars

---------------------------------------------------------------------------
(* Properties *)

Admins == {d \in store : d.role = "admin"}

HandlerRan(r) == \E i \in 1..Len(r.trace) : r.trace[i].mw = "handler"

\* A token verifies at time t: it is signed with the server's key and t is
\* before its expiry.
ValidAt(k, t) ==
    /\ DOMAIN k = {"body", "sig"}
    /\ k.sig = <<"HS256", JWT_SECRET, k.body>>
    /\ t < k.body.exp

\* C1: under any interleaving of concurrent POST /auth/admin/signup
\* requests, each reading the store and then writing in a separate step, the
\* store never holds more than one record with role admin, and holds exactly
\* one once a bootstrap has succeeded.
C1_SingleAdmin ==
    /\ Cardinality(Admins) <= 1
    /\ (resp.route = SignupRoute /\ resp.status = 201)
          => Cardinality(Admins) = 1

\* The steps of a bootstrap request: the read that answers 400, the read
\* that suspends the handler, and the resumed handler's write.
SignupSuspends == BagCardinality(pending') > BagCardinality(pending)
                    /\ \E e \in BagToSet(pending') : e.route = SignupRoute /\ CopiesIn(e, pending') > CopiesIn(e, pending)
SignupAnswers == resp'.route = SignupRoute
SignupResumes == SignupAnswers /\ BagCardinality(pending') < BagCardinality(pending)

\* The token is one issued for the document at time t.
TokenFor(k, d, t) ==
    /\ ValidAt(k, t)
    /\ k.body.id = ToString(d._id)
    /\ k.body.email = d.email
    /\ k.body.role = d.role
    /\ k.body.permissions = d.permissions

\* C2: a bootstrap called while an admin record exists answers 400, leaves
\* the store unchanged and issues no token; a bootstrap called while none
\* exists (every suspended one: it read none) creates exactly one record,
\* with role admin and all four flags true whatever the body holds, and
\* returns a token issued for that record.
C2_BootstrapStep ==
    /\ (Admins # {} /\ (SignupAnswers \/ SignupSuspends) /\ ~SignupResumes)
          => /\ resp'.route = SignupRoute
             /\ resp'.status = 400
             /\ resp'.token = Undefined
             /\ store' = store
             /\ issued' = issued
    /\ (SignupAnswers /\ resp'.status = 400)
          => Admins # {} /\ store' = store /\ issued' = issued
    /\ SignupResumes
          => /\ resp'.status = 201
             /\ \E d \in store' \ store :
                    /\ store' = store \cup {d}
                    /\ d.role = "admin"
                    /\ d.permissions = AllTrue
                    /\ TokenFor(resp'.token, d, now)

C2_Bootstrap == [][C2_BootstrapStep]_vars

\* The decision the permission gate is to take: 401 without an identity
\* context, allow (0) for an admin, 403 unless the flag is true, else allow.
PermissionDecision(user, permission) ==
    IF user = Undefined THEN 401
    ELSE IF user.role = "admin" THEN 0
    ELSE IF user.permissions = Undefined THEN 403
    ELSE IF permission \notin DOMAIN user.permissions THEN 403
    ELSE IF user.permissions[permission] # TRUE THEN 403
    ELSE 0

\* C3: for every identity context and every permission name,
\* requirePermission(name) answers 401 without an identity context, allows
\* an admin whatever its flags, answers 403 to anyone else whose flag is not
\* true, and allows otherwise; the handler runs exactly when it allows.
C3_PermissionDecision ==
    /\ \A p \in PermNames :
          (resp.route = MiddlewareCall
              /\ resp.trace = <<Mw("checkPermission", p)>>)
            => resp.status = PermissionDecision(resp.user, p)
    /\ resp.route \in FeatureRoutes
          => LET d == PermissionDecision(resp.user, FeaturePermission(resp.route))
             IN  /\ HandlerRan(resp) <=> d = 0
                 /\ resp.status = IF d = 0 THEN 200 ELSE d

\* An admin whose flags are all false is served the dashboard.
C3_AdminBypassWitness ==
    /\ resp.route = "GET /features/dashboard"
    /\ resp.status = 200
    /\ HandlerRan(resp)
    /\ resp.user.role = "admin"
    /\ resp.user.permissions = AllFalse

\* The decision the role gate is to take.
RoleDecision(user, role) ==
    IF user = Undefined THEN 401
    ELSE IF user.role # role THEN 403
    ELSE 0

\* C4: for every identity context and every required role, requireRole(role)
\* answers 401 without an identity context, 403 when the context's role is
\* another one, and allows otherwise; a sub-admin never reaches an /admin
\* handler, even with all four flags true.
C4_RoleDecision ==
    /\ \A role \in Roles :
          (resp.route = MiddlewareCall /\ resp.trace = <<Mw("checkRole", role)>>)
            => resp.status = RoleDecision(resp.user, role)
    /\ resp.route \in AdminRoutes
          => LET d == RoleDecision(resp.user, "admin")
             IN  /\ HandlerRan(resp) <=> d = 0
                 /\ d # 0 => resp.status = d

\* A sub-admin with all four flags true is refused the list of sub-admins.
C4_SubAdminWitness ==
    /\ resp.route = ListRoute
    /\ resp.status = 403
    /\ ~HandlerRan(resp)
    /\ resp.user.role = "sub-admin"
    /\ resp.user.permissions = AllTrue

\* The tokens a request carries, in its Authorization header or its cookie.
TokensOf(r) ==
    {k \in {r.cookie} : "body" \in DOMAIN k}
        \cup (IF r.authorization = Undefined THEN {}
              ELSE {r.authorization.words[i] : i \in
                      {j \in 1..Len(r.authorization.words) :
                          "body" \in DOMAIN r.authorization.words[j]}})

NoValidToken(r, t) == \A k \in TokensOf(r) : ~ValidAt(k, t)

\* The response of a handler resumed after its await: its request passed
\* the gates when the handler started.
Resumed(r) ==
    r.route = CreateRoute /\ r.status \in {201, 500} /\ ~StoreFailed(r)

C5_State ==
    /\ resp.route \in ProtectedRoutes
          => /\ HandlerRan(resp)
                  => /\ Len(resp.trace) = 3
                     /\ resp.trace[1].mw = "verifyToken"
                     /\ resp.trace[2].mw \in {"checkRole", "checkPermission"}
                     /\ resp.trace[3].mw = "handler"
                     /\ resp.user # Undefined
                     /\ resp.route \in AdminRoutes
                          => RoleDecision(resp.user, "admin") = 0
                     /\ resp.route \in FeatureRoutes
                          => PermissionDecision(resp.user,
                                FeaturePermission(resp.route)) = 0
             /\ (HandlerRan(resp) /\ ~Resumed(resp))
                  => \E k \in TokensOf(resp) :
                        ValidAt(k, now) /\ resp.user = k.body
             /\ (NoValidToken(resp, now) /\ ~Resumed(resp))
                  => /\ resp.status = 401
                     /\ resp.trace = <<Mw("verifyToken", "")>>
                     /\ resp.user = Undefined
    /\ \A e \in BagToSet(pending) :
          e.route = CreateRoute
            => /\ e.trace = <<Mw("verifyToken", ""), Mw("checkRole", "admin"),
                              HandlerMark(CreateRoute)>>
               /\ RoleDecision(e.req.user, "admin") = 0

C5_Step ==
    /\ (resp'.route \in ProtectedRoutes /\ ~Resumed(resp')
            /\ NoValidToken(resp', now))
          => store' = store /\ pending' = pending /\ nextId' = nextId
    /\ \A e \in BagToSet(pending') :
          (e.route = CreateRoute /\ CopiesIn(e, pending') > CopiesIn(e, pending))
            => \E k \in TokensOf(e.req) : ValidAt(k, now) /\ e.req.user = k.body

\* C5: on every protected route the handler runs only in a request that
\* passed the authentication gate and then the authorization gate, in that
\* order; a request with no token, or with an invalid or expired one, stops
\* at the authentication gate, and the store is neither read nor changed
\* for it.
C5_GateOrder == []C5_State /\ [][C5_Step]_vars

\* An issued token presented after its expiry on DELETE /admin/sub-admin/:id
\* while a sub-admin it could delete is stored.
C5_ExpiredWitness ==
    /\ resp.route = DeleteRoute
    /\ resp.status = 401
    /\ \E k \in TokensOf(resp) :
          k \in IssuedTokens /\ k.body.role = "admin" /\ now >= k.body.exp
    /\ \E d \in store : d.role = "sub-admin"

\* The Authorization header is "Bearer <token>" with a non-empty token.
CarriesBearerToken(h) ==
    /\ h # Undefined
    /\ Len(h.words) = 2
    /\ h.words[1] = Scheme("Bearer")
    /\ Truthy(h.words[2])

Authenticated(r) == r.user # Undefined

\* C6: the authentication gate takes its candidate token from the
\* Authorization: Bearer header first and from the token cookie second. When
\* the Bearer header carries a token the request is authenticated iff that
\* token is valid, whatever the cookie holds; when it carries none the
\* cookie's token decides; with neither a Bearer token nor a cookie the
\* request is answered 401; and whenever the request is not authenticated it
\* is answered 401 by the gate alone, with no identity context attached.
C6_TokenSource ==
    resp.route \in ProtectedRoutes
      => LET h == resp.authorization
             c == resp.cookie
         IN  /\ CarriesBearerToken(h)
                  => /\ Authenticated(resp) <=> ValidAt(h.words[2], now)
                     /\ Authenticated(resp) => resp.user = h.words[2].body
             /\ ~CarriesBearerToken(h)
                  => /\ Authenticated(resp) <=> (Truthy(c) /\ ValidAt(c, now))
                     /\ Authenticated(resp) => resp.user = c.body
             /\ (~CarriesBearerToken(h) /\ ~Truthy(c))
                  => /\ resp.status = 401
                     /\ resp.message = "Authentication required"
             /\ ~Authenticated(resp)
                  => /\ resp.status = 401
                     /\ ~HandlerRan(resp)
                     /\ resp.trace = <<Mw("verifyToken", "")>>

\* C7: an issued token presented at or after its expiry (the time of
\* issuance plus the configured lifetime) is refused with 401 and no
\* identity context is attached; presented before its expiry it is
\* accepted; no expired token authorizes a protected handler.
C7_Expiry ==
    (resp.route \in ProtectedRoutes /\ ~Resumed(resp))
      => \A e \in issued :
            e.token \in TokensOf(resp)
              => IF now >= e.at + JWT_EXPIRES_IN
                 THEN /\ resp.status = 401
                      /\ resp.user = Undefined
                      /\ ~HandlerRan(resp)
                 ELSE /\ resp.status # 401
                      /\ resp.user = e.token.body

\* An issued token presented at the very second of its expiry is refused.
C7_AtExpiryWitness ==
    /\ resp.route \in ProtectedRoutes
    /\ resp.status = 401
    /\ \E e \in issued :
          e.token \in TokensOf(resp) /\ now = e.at + JWT_EXPIRES_IN

\* C8: for every token issued for a user record and every time before its
\* expiry, decoding the token succeeds and yields the record's id (in its
\* string form), email, role and permissions as they were at issuance; and
\* the identity context the gate attaches for that token carries them.
C8_RoundTrip ==
    \A e \in issued :
        now < e.at + JWT_EXPIRES_IN
          => LET v == jwtVerify(e.token, JWT_SECRET, now) IN
             /\ v.ok
             /\ v.decoded.id = ObjectIdJSON(e.user._id)
             /\ v.decoded.email = e.user.email
             /\ v.decoded.role = e.user.role
             /\ v.decoded.permissions = e.user.permissions
             /\ (resp.route \in ProtectedRoutes /\ ~Resumed(resp)
                    /\ e.token \in TokensOf(resp))
                  => /\ resp.user.id = ObjectIdJSON(e.user._id)
                     /\ resp.user.email = e.user.email
                     /\ resp.user.role = e.user.role
                     /\ resp.user.permissions = e.user.permissions

\* A sub-admin's token presented some time after it was issued, when the
\* record it was issued for has changed in the store.
C8_SubAdminWitness ==
    /\ resp.route \in ProtectedRoutes
    /\ Authenticated(resp)
    /\ \E e \in issued :
          /\ e.token \in TokensOf(resp)
          /\ e.user.role = "sub-admin"
          /\ e.at < now
          /\ now < e.at + JWT_EXPIRES_IN
          /\ \E d \in store : d._id = e.user._id /\ Hydrate(d) # e.user

\* The decision of the gates for a token issued for a user at a time: 401
\* once expired, else 403 or 0 (allowed) by the role and flags issued.
SnapshotDecision(e, route, t) ==
    IF t >= e.at + JWT_EXPIRES_IN THEN 401
    ELSE IF e.user.role = "admin" THEN 0
    ELSE IF route \in AdminRoutes THEN 403
    ELSE IF FlagTruthy(e.user.permissions, FeaturePermission(route)) THEN 0
    ELSE 403

GateOutcome(r) == IF HandlerRan(r) THEN 0 ELSE r.status

\* C9: the decision of the gates for a request carrying an issued token is
\* a function of the claims issued, the route and the current time alone:
\* whatever the store holds when the request arrives, and whatever
\* updateSubAdmin did to the user's flags since issuance, the request is
\* allowed or refused as the role and permissions at issuance say.
C9_TokenOnly ==
    (resp.route \in ProtectedRoutes /\ ~Resumed(resp))
      => \A e \in issued :
            e.token \in TokensOf(resp)
              => GateOutcome(resp) = SnapshotDecision(e, resp.route, now)

\* A sub-admin's token still opens a feature whose flag updateSubAdmin has
\* since cleared in the store.
C9_StaleWitness ==
    /\ resp.route \in FeatureRoutes
    /\ HandlerRan(resp)
    /\ \E e \in issued :
          /\ e.token \in TokensOf(resp)
          /\ e.user.role = "sub-admin"
          /\ \E d \in store :
                /\ d._id = e.user._id
                /\ ~FlagTruthy(Hydrate(d).permissions,
                               FeaturePermission(resp.route))

\* The issued tokens the authentication gate accepts now.
Accepted ==
    {k \in IssuedTokens :
        verifyToken(Request(BearerHeader(k), Undefined), now).next}

C10_State ==
    (resp.route \in ProtectedRoutes /\ ~Resumed(resp))
      => \A k \in TokensOf(resp) \cap loggedOut :
            now < k.body.exp
              => /\ Authenticated(resp)
                 /\ resp.user = k.body
                 /\ resp.status # 401

C10_Step ==
    resp'.route = LogoutRoute
      => /\ UNCHANGED <<store, nextId, now, issued, pending>>
         /\ Accepted' = Accepted
         /\ resp'.status = 200
         /\ resp'.clearCookie
         /\ resp'.token = Undefined
         /\ resp'.setCookie = Undefined

\* C10: a logout changes neither the store nor the set of tokens the
\* authentication gate accepts, and only tells the client to clear its
\* token cookie; a token that was presented to logout is still accepted on
\* every protected route until its own expiry.
C10_Logout == []C10_State /\ [][C10_Step]_vars

\* A token presented to logout earlier reaches a protected handler.
C10_AfterLogoutWitness ==
    /\ resp.route \in ProtectedRoutes
    /\ HandlerRan(resp)
    /\ resp.status = 200
    /\ TokensOf(resp) \cap loggedOut # {}

\* What a login response shows the caller: everything but the inputs kept
\* beside it.
Shown(r) == [k \in DOMAIN r \ {"input"} |-> r[k]]

InvalidCredentials ==
    Shown(Response(LoginRoute, Anonymous, 401, "Invalid credentials", <<>>))

\* The records a login body matches: by email, and by email and secret.
ByEmail(body) == {d \in store : d.email = body.email}
ByCredentials(body) ==
    {d \in ByEmail(body) : d.password = Hash(body.password)}

C11_State ==
    (resp.route = LoginRoute /\ ~StoreFailed(resp))
      => IF ByCredentials(resp.input) = {}
         THEN Shown(resp) = InvalidCredentials
         ELSE /\ resp.status = 200
              /\ \E d \in ByCredentials(resp.input) :
                    /\ resp.token = generateToken(Hydrate(d), now)
                    /\ resp.body = UserView(Hydrate(d))
              /\ resp.setCookie = resp.token

C11_Step ==
    (resp'.route = LoginRoute /\ resp'.status # 200)
      => UNCHANGED <<store, issued, nextId, pending>>

\* C11: while the store answers, a login with an email no record has and a
\* login with the wrong secret for an existing email are answered with the
\* same response (401, "Invalid credentials", no token, no cookie) and issue
\* nothing; a login is answered 200 with a token for the record exactly when
\* the email is a record's and the secret matches its stored derivation.
C11_Login == []C11_State /\ [][C11_Step]_vars

\* A login with the wrong secret for an existing email is refused, in a
\* store where another email matches no record.
C11_WrongSecretWitness ==
    /\ resp.route = LoginRoute
    /\ resp.status = 401
    /\ ByEmail(resp.input) # {}
    /\ \E e \in Emails : \A d \in store : d.email # e

\* C12: in every reachable state of the store, whatever sequence or
\* interleaving of signup, createSubAdmin, updateSubAdmin (with or without
\* an email) and deleteSubAdmin led to it, no two records have the same
\* email.
C12_UniqueEmail ==
    \A d1, d2 \in store : d1.email = d2.email => d1 = d2

\* An update that would give a sub-admin the email of another record has
\* been refused, and both records are in the store.
C12_RefusedWitness ==
    /\ resp.route = UpdateRoute
    /\ resp.status = 500
    /\ resp.message = DuplicateKeyMessage
    /\ Cardinality(store) = 2

\* The flags a request body gives: a flag it does not give is false.
FlagsGiven(body) ==
    [p \in PermNames |->
        /\ "permissions" \in DOMAIN body
        /\ p \in DOMAIN body.permissions
        /\ body.permissions[p] = TRUE]

C13_Step ==
    (resp'.route = CreateRoute /\ HandlerRan(resp') /\ ~StoreFailed(resp'))
      => LET body == resp'.input IN
         IF \E d \in store : d.email = body.email
         THEN /\ resp'.status = 400
              /\ store' = store
         ELSE /\ resp'.status = 201
              /\ \E d \in store' \ store :
                    /\ store' = store \cup {d}
                    /\ d.role = "sub-admin"
                    /\ d.email = body.email
                    /\ d.permissions = FlagsGiven(body)

\* C13: while the store answers its queries, createSubAdmin with an email
\* a record already has is answered 400 and leaves the store unchanged;
\* otherwise it is answered 201 and adds exactly one record, with role
\* sub-admin whatever the body carries, the flags the body gives and false
\* for every flag it does not give.
C13_CreateSubAdmin == [][C13_Step]_vars

\* C14: in every reachable state of the store every record's permissions
\* has exactly the four keys dashboard, collegeManagement, contentEditing
\* and viewData, each a boolean, whatever permissions createSubAdmin was
\* given and whatever a later updateSubAdmin supplied.
C14_FourKeys ==
    \A d \in store :
        /\ DOMAIN d.permissions = PermNames
        /\ \A p \in PermNames : d.permissions[p] \in BOOLEAN

\* The sub-admin records a request parameter id names.
SubAdminsById(id) == {d \in store : d._id = id /\ d.role = "sub-admin"}

UpdatableFields == {"name", "email", "permissions"}

C15_Step ==
    (resp'.route = UpdateRoute /\ HandlerRan(resp') /\ ~StoreFailed(resp'))
      => LET id == resp'.input.id
             body == resp'.input.body
         IN
         IF SubAdminsById(id) = {}
         THEN /\ resp'.status = 404
              /\ store' = store
         ELSE /\ resp'.status # 404
              /\ \A d \in store : d._id # id => d \in store'
              /\ Cardinality(store') = Cardinality(store)
              /\ \E old \in SubAdminsById(id), new \in store' :
                    /\ new._id = id
                    /\ DOMAIN new = DOMAIN old
                    /\ \A k \in DOMAIN old :
                          (k \notin UpdatableFields \/ k \notin DOMAIN body)
                            => new[k] = old[k]
                    /\ resp'.status = 200
                         => \A k \in UpdatableFields \cap DOMAIN body :
                              new[k] = body[k]

\* C15: while the store answers, updateSubAdmin on an existing sub-admin
\* changes nothing but the fields the request supplies: each of name, email
\* and permissions it does not supply keeps its stored value, every other
\* field and every other record is unchanged, and on success each supplied
\* field holds the value supplied; on an id that is absent or is not a
\* sub-admin's it is answered 404 and the store is unchanged.
C15_UpdateFrame == [][C15_Step]_vars

\* An update supplying only a name has succeeded on a sub-admin whose
\* stored flags are not the defaults.
C15_NameOnlyWitness ==
    /\ resp.route = UpdateRoute
    /\ resp.status = 200
    /\ DOMAIN resp.input.body = {"name"}
    /\ \E d \in store :
          /\ d._id = resp.input.id
          /\ d.name = resp.input.body.name
          /\ d.permissions # AllFalse

C16_Step ==
    /\ \A d \in store, d2 \in store' : d2._id = d._id => d2.role = d.role
    /\ \A d2 \in store' :
          (\A d \in store : d._id # d2._id)
            => d2.role = (IF resp'.route = CreateRoute THEN "sub-admin"
                          ELSE "admin")
    /\ \A e \in issued' \ issued :
          resp'.route = LoginRoute
            => \E d \in store :
                  /\ ObjectIdJSON(d._id) = e.token.body.id
                  /\ e.token.body.role = d.role

\* C16: a record's role never changes after creation: a record created by
\* createSubAdmin has role sub-admin and one created by signup role admin,
\* every step (updateSubAdmin with a role in its body included) leaves the
\* role of each existing record as it was, and a token issued by login
\* carries the role of the record it is issued for.
C16_RoleImmutable == [][C16_Step]_vars

\* An update whose body carries role admin has succeeded on a record that
\* is still a sub-admin.
C16_RoleInBodyWitness ==
    /\ resp.route = UpdateRoute
    /\ resp.status = 200
    /\ "role" \in DOMAIN resp.input.body
    /\ \E d \in store : d._id = resp.input.id /\ d.role = "sub-admin"

C17_Step ==
    /\ (resp'.route = DeleteRoute /\ HandlerRan(resp') /\ ~StoreFailed(resp'))
         => LET target == SubAdminsById(resp'.input.id) IN
            IF target = {}
            THEN /\ resp'.status = 404
                 /\ store' = store
            ELSE /\ resp'.status = 200
                 /\ Cardinality(target) = 1
                 /\ store' = store \ target
    /\ \A d \in store : d.role = "admin" => d \in store'

\* C17: while the store answers, deleteSubAdmin removes exactly the record
\* with the given id when it is a sub-admin's and leaves every other record
\* unchanged; for an id no record has, or the admin's id, it is answered
\* 404 and the store is unchanged; and no step removes or changes an admin
\* record.
C17_Delete == [][C17_Step]_vars

\* A delete naming the admin's id has been refused.
C17_AdminIdWitness ==
    /\ resp.route = DeleteRoute
    /\ resp.status = 404
    /\ \E d \in store : d._id = resp.input.id /\ d.role = "admin"

\* The secrets request bodies carry in clear.
PlainSecrets ==
    {b.password : b \in SignupBodies \cup CreateBodies \cup LoginBodies}

\* A user object of a response holds no password field, and none of its
\* fields holds a secret or a derivation of one.
NoSecretIn(view) ==
    /\ "password" \notin DOMAIN view
    /\ "name" \in DOMAIN view => view.name \notin PlainSecrets
    /\ "email" \in DOMAIN view => view.email \notin PlainSecrets
    /\ "role" \in DOMAIN view => view.role \notin PlainSecrets
    /\ "permissions" \in DOMAIN view => "bcrypt" \notin DOMAIN view.permissions

UserObjectRoutes == {LoginRoute, CreateRoute, GetRoute, UpdateRoute}

\* C18: no response of signup, login, createSubAdmin, listSubAdmins,
\* getSubAdmin, updateSubAdmin or deleteSubAdmin carries a user's secret or
\* its stored derivation, in a user object, in the message or in the token,
\* and no issued token's payload carries one.
C18_NoSecret ==
    /\ resp.message \notin PlainSecrets
    /\ (resp.route \in UserObjectRoutes /\ resp.status \in {200, 201})
         => NoSecretIn(resp.body)
    /\ (resp.route = ListRoute /\ resp.status = 200)
         => \A view \in resp.body : NoSecretIn(view)
    /\ (resp.route \in LifecycleRoutes /\ resp.status \in {400, 401, 403, 404, 500})
         => resp.body = Undefined
    /\ resp.token # Undefined => NoSecretIn(resp.token.body)
    /\ \A e \in issued : NoSecretIn(e.token.body)

\* The list of sub-admins has been returned with a record in it.
C18_ListWitness ==
    /\ resp.route = ListRoute
    /\ resp.status = 200
    /\ resp.body # {}

\* The messages of an authentication failure: no token, and a token that
\* does not verify.
AuthenticationFailureMessages ==
    {verifyToken(Anonymous, now).message,
     verifyToken(Request(BearerHeader(AttackerToken), Undefined), now).message}

GateRejected(r) ==
    /\ r.route \in ProtectedRoutes \cup {MiddlewareCall}
    /\ r.status \in {401, 403}
    /\ ~HandlerRan(r)

\* C19: a request a gate rejects for its role or for a missing permission
\* carries the message a request rejected for its token carries, so the
\* message does not tell which gate rejected it nor which role or
\* permission was required.
C19_SameMessage ==
    GateRejected(resp) => resp.message \in AuthenticationFailureMessages

\* What a store driver's errors say.
DriverMessages == {StoreErrorMessage, DuplicateKeyMessage}

\* C20: when a store operation fails inside a lifecycle handler outside
\* development mode, the response is a 500 whose message carries none of
\* the store driver's error detail.
C20_NoDetail ==
    (resp.route \in LifecycleRoutes /\ resp.status = 500
        /\ resp.input # [env |-> "development"])
      => resp.message \notin DriverMessages

\* The store holds no record for the subject of a token.
SubjectRemoved(k) == \A d \in store : ObjectIdJSON(d._id) # k.body.id

\* C21: a token issued to a sub-admin keeps authorizing after
\* deleteSubAdmin has removed the sub-admin's record: presented on a
\* /features route before its expiry, with no record for its subject in the
\* store, the request is authenticated as the token says, and it is allowed
\* when the permissions issued have the route's flag true and answered 403
\* when they do not.
C21_ValidAfterDelete ==
    resp.route \in FeatureRoutes
      => \A e \in issued :
            (/\ e.token \in TokensOf(resp)
             /\ e.user.role = "sub-admin"
             /\ SubjectRemoved(e.token)
             /\ now < e.at + JWT_EXPIRES_IN)
              => /\ resp.user = e.token.body
                 /\ IF FlagTruthy(e.user.permissions,
                                  FeaturePermission(resp.route))
                    THEN /\ HandlerRan(resp)
                         /\ resp.status = 200
                    ELSE /\ ~HandlerRan(resp)
                         /\ resp.status = 403

\* The token of a deleted sub-admin has opened a feature.
C21_DeletedWitness ==
    /\ resp.route \in FeatureRoutes
    /\ resp.status = 200
    /\ HandlerRan(resp)
    /\ \E e \in issued :
          /\ e.token \in TokensOf(resp)
          /\ e.user.role = "sub-admin"
          /\ SubjectRemoved(e.token)

====
